---- MODULE Spec2Model ----
(***************************************************************************)
(* File-events engine of native-platform: the generic server               *)
(* (generic_fsnotifier.cpp), the Linux inotify backend                     *)
(* (linux_fsnotifier.cpp) and the Windows ReadDirectoryChangesW backend    *)
(* (win_fsnotifier.cpp), as one state machine.  Host threads call the JNI  *)
(* entry points; one loop thread per Server owns the watch-point table.    *)
(***************************************************************************)
EXTENDS Integers, Sequences, FiniteSets, TLC

VARIABLES
    trip,            \* Windows: one path from the host's form to the table key and back
    platform,        \* "linux" or "win": which backend was built
    aborted,         \* the process ended (std::terminate or a crash)
    javaServer,      \* "none" | "buffer": the direct buffer wrapServer returned
    deleteCalls,     \* how many times close0 reached `delete server`
    deleted,         \* the first `delete server` has returned
    hostPc,          \* per host thread: position inside the JNI call
    hostCmd,         \* per host thread: the Command it waits on (0: none)
    hostRes,         \* per host thread: outcome of its last JNI call
    closePaths,      \* per host thread: ~Server's copy of the table's keys
    opsLeft,         \* register/unregister calls the host may still make
    cmds,            \* live Command objects, by id
    commands,        \* AbstractServer::commands (queue of ids)
    mtxCommands,     \* "free" | "loop": holder of mtxCommands
    fdEventReadable, \* the eventfd counter is non-zero
    loopPc,          \* position of the loop thread
    revents,         \* <<fds[0].revents has POLLIN, fds[1].revents has POLLIN>>
    drainIdx,        \* processCommands: index of the next command
    buffer,          \* inotify records read and not yet handled
    started,         \* notifyStarted has run
    initException,   \* AbstractServer::initException
    terminated,      \* Server::terminated
    watchPoints,     \* path -> WatchPoint (Linux: its watchDescriptor; Windows: its id)
    wps,             \* Windows: WatchPoint objects and their directory handles, by id
    apcQueue,        \* Windows: APCs queued to the loop thread
    stack,           \* Windows: what the loop thread is in the middle of, innermost last
    mutationMutex,   \* Windows: "free" | "loop": holder of mutationMutex
    watchRoots,      \* Linux reverse index: watch descriptor -> path
    fdsOpen,         \* open handles among {"inotify", "eventfd", "thread"}
    kWatches,        \* kernel: live inotify watches, [wd, path]
    nextWd,          \* kernel: next watch descriptor to hand out
    inotifyQ,        \* kernel: queued inotify records
    dirExists,       \* file system: path -> is a directory
    dirDeleted,      \* some watched directory has been deleted
    osLeft,          \* OS happenings still to come
    sinkFaultsLeft,  \* failures the sink may still throw from pathChanged
    sinkCalls,       \* calls of the sink's pathChanged
    emitted,         \* the (type, path) pairs given to pathChanged by the last handler
    errCalls,        \* calls of the sink's reportError
    regLog,          \* paths registered and not unregistered, as the host saw them
    wakeFaultsLeft   \* early or late returns of wait_for still to come

vars == <<trip, platform, aborted, javaServer, deleteCalls, deleted, hostPc, hostCmd,
          hostRes, closePaths, opsLeft, cmds, commands, mtxCommands,
          fdEventReadable, loopPc, revents, drainIdx, buffer, started,
          initException, terminated, watchPoints, watchRoots, fdsOpen, kWatches,
          nextWd, inotifyQ, dirExists, dirDeleted, osLeft, sinkFaultsLeft,
          sinkCalls, emitted, errCalls, regLog, wakeFaultsLeft,
          wps, apcQueue, stack, mutationMutex>>

----------------------------------------------------------------------------
(* Bounds of the model *)

MaxOps == 2
MaxOsEvents == 1
MaxSinkFaults == 1
MaxCloses == 2
MaxWakeFaults == 1
MaxWatchPoints == 2 * MaxOps

(* The host: one thread creates and closes the Server, the other one       *)
(* registers and unregisters paths.                                        *)
Threads == {"t1", "t2"}
Constructor == "t1"
Client == "t2"
CmdIds == 1 .. (MaxOps + 3)

(* Program constants: FileWatcherCallback.Type *)
FILE_EVENT_CREATED == 0
FILE_EVENT_REMOVED == 1
FILE_EVENT_MODIFIED == 2
FILE_EVENT_INVALIDATE == 3
FILE_EVENT_UNKNOWN == 4

(* convertToLongPathIfNeeded: paths up to this length stay as given *)
LONG_PATH_LIMIT == 240

RECURSIVE Pad(_)
Pad(n) ==
    IF n = 0 THEN ""
    ELSE LET half == Pad(n \div 2) IN
         half \o half \o (IF n % 2 = 1 THEN "d" ELSE "")

(* A Windows path too long to stay as given *)
WinLongPath == "C:\\" \o Pad(LONG_PATH_LIMIT)

PathA == IF platform = "linux" THEN "/a" ELSE "C:\\a"
PathB == IF platform = "linux" THEN "/b" ELSE WinLongPath
Paths == {PathA, PathB}
PathOrder == <<PathA, PathB>>
PathLists == {<<PathA>>, <<PathB, PathA>>}

NullFailure == "null"

----------------------------------------------------------------------------
(* Maps (std::unordered_map) *)

MapPut(m, k, v) == [x \in (DOMAIN m) \cup {k} |-> IF x = k THEN v ELSE m[x]]
MapErase(m, k) == [x \in (DOMAIN m) \ {k} |-> m[x]]
EmptyMap == [x \in {} |-> 0]

(* IS_SET / IS_ANY_SET over flag sets *)
IS_SET(flags, flag) == flag \subseteq flags
IS_ANY_SET(flags, mask) == (flags \cap mask) # {}

Running == ~aborted

cfgVars == <<platform, wakeFaultsLeft, trip>>
lifeVars == <<javaServer, deleteCalls, deleted>>
hostVars == <<hostPc, hostCmd, hostRes, closePaths, opsLeft>>
cmdVars == <<cmds, commands, mtxCommands, fdEventReadable>>
loopVars == <<loopPc, revents, drainIdx, buffer>>
startVars == <<started, initException>>
tableVars == <<terminated, watchPoints, watchRoots, regLog>>
kernVars == <<fdsOpen, kWatches, nextWd, inotifyQ>>
fsVars == <<dirExists, dirDeleted, osLeft>>
sinkVars == <<sinkFaultsLeft, sinkCalls, emitted, errCalls>>
winVars == <<wps, apcQueue, stack, mutationMutex>>

----------------------------------------------------------------------------
(* The server state a command body works on, as one record:                *)
(* wp = watchPoints, wr = watchRoots, kw = kernel watches, q = kernel      *)
(* queue, nw = next watch descriptor, term = terminated, reg = regLog.     *)

ServerState ==
    [wp |-> watchPoints, wr |-> watchRoots, kw |-> kWatches, q |-> inotifyQ,
     nw |-> nextWd, term |-> terminated, reg |-> regLog]

Outcome(S, ok, failure) == [st |-> S, ok |-> ok, failure |-> failure]

IgnoredRecord(wd) == [wd |-> wd, mask |-> {"IN_IGNORED"}, name |-> ""]

(* inotify_add_watch with IN_ONLYDIR: -1 when the path is no directory or  *)
(* the inotify descriptor is closed; the descriptor of the existing watch  *)
(* when the directory is watched already; a fresh descriptor otherwise.    *)
inotify_add_watch(S, path) ==
    IF ~dirExists[path] \/ "inotify" \notin fdsOpen
    THEN [st |-> S, wd |-> -1]
    ELSE IF \E w \in S.kw : w.path = path
         THEN [st |-> S, wd |-> (CHOOSE w \in S.kw : w.path = path).wd]
         ELSE [st |-> [S EXCEPT !.kw = @ \cup {[wd |-> S.nw, path |-> path]},
                                !.nw = @ + 1],
               wd |-> S.nw]

(* inotify_rm_watch: removes a live watch and queues IN_IGNORED for it;    *)
(* fails (logged by the caller) for any other descriptor.                  *)
inotify_rm_watch(S, wd) ==
    IF "inotify" \in fdsOpen /\ (\E w \in S.kw : w.wd = wd)
    THEN [S EXCEPT !.kw = {w \in @ : w.wd # wd},
                   !.q = Append(@, IgnoredRecord(wd))]
    ELSE S

(* WatchPoint::~WatchPoint (Linux) *)
LinuxWatchPointDtor(S, wd) == inotify_rm_watch(S, wd)

(* A registerPath that replaces the WatchPoint of a path already watched *)
LinuxRegisterPathReplacing(S, path) ==
    LET r == inotify_add_watch(S, path) IN
    IF r.wd = -1
    THEN Outcome(S, FALSE, "Couldn't add watch")
    ELSE Outcome([r.st EXCEPT !.wp = MapPut(@, path, r.wd),
                              !.wr = MapPut(@, r.wd, path),
                              !.reg = @ \cup {path}],
                 TRUE, NullFailure)

(* Server::registerPath (Linux) *)
LinuxRegisterPath(S, path) ==
    IF path \in DOMAIN S.wp
    THEN Outcome(S, FALSE, "Already watching path")
    ELSE LET r == inotify_add_watch(S, path) IN
         IF r.wd = -1
         THEN Outcome(S, FALSE, "Couldn't add watch")
         ELSE Outcome([r.st EXCEPT !.wp = MapPut(@, path, r.wd),
                                   !.wr = MapPut(@, r.wd, path),
                                   !.reg = @ \cup {path}],
                      TRUE, NullFailure)

(* Server::unregisterPath (Linux): void, throws for an unknown path *)
LinuxUnregisterPath(S, path) ==
    IF path \notin DOMAIN S.wp
    THEN Outcome(S, FALSE, "Cannot stop watching path that was never watched")
    ELSE LET wd == S.wp[path]
             S1 == LinuxWatchPointDtor([S EXCEPT !.wp = MapErase(@, path)], wd)
         IN  Outcome([S1 EXCEPT !.wr = MapErase(@, wd), !.reg = @ \ {path}],
                     TRUE, NullFailure)

registerPath(S, path) == LinuxRegisterPath(S, path)

unregisterPath(S, path) == LinuxUnregisterPath(S, path)

(* AbstractServer::registerPaths: the first failure leaves the loop *)
RECURSIVE registerPaths(_, _)
registerPaths(S, paths) ==
    IF paths = <<>> THEN Outcome(S, TRUE, NullFailure)
    ELSE LET r == registerPath(S, Head(paths)) IN
         IF r.failure # NullFailure THEN r
         ELSE registerPaths(r.st, Tail(paths))

(* AbstractServer::unregisterPaths: success &= unregisterPath(path) *)
RECURSIVE unregisterPathsFrom(_, _, _)
unregisterPathsFrom(S, paths, success) ==
    IF paths = <<>> THEN Outcome(S, success, NullFailure)
    ELSE LET r == unregisterPath(S, Head(paths)) IN
         IF r.failure # NullFailure THEN r
         ELSE unregisterPathsFrom(r.st, Tail(paths), success /\ r.ok)

unregisterPaths(S, paths) == unregisterPathsFrom(S, paths, TRUE)

(* Server::terminate *)
terminate(S) == [S EXCEPT !.term = TRUE]

(* Command::perform of the four command classes *)
perform(S, cmd) ==
    CASE cmd.kind = "Register" ->
            LET r == registerPaths(S, cmd.paths) IN Outcome(r.st, TRUE, r.failure)
      [] cmd.kind = "Unregister" -> unregisterPaths(S, cmd.paths)
      [] cmd.kind = "UnregisterPath" ->
            LET r == unregisterPath(S, cmd.paths[1]) IN Outcome(r.st, TRUE, r.failure)
      [] cmd.kind = "Terminate" -> Outcome(terminate(S), TRUE, NullFailure)

(* Command::execute: perform, store result or failure, notify_all *)
execute(S, cmd) ==
    LET r == perform(S, cmd) IN
    [st |-> r.st,
     cmd |-> [cmd EXCEPT !.fired = @ + 1,
                         !.success = IF r.failure # NullFailure THEN @
                                     ELSE IF r.ok THEN "true" ELSE "false",
                         !.failure = r.failure]]

StoreServerState(S) ==
    /\ watchPoints' = S.wp
    /\ watchRoots' = S.wr
    /\ kWatches' = S.kw
    /\ inotifyQ' = S.q
    /\ nextWd' = S.nw
    /\ terminated' = S.term
    /\ regLog' = S.reg

----------------------------------------------------------------------------
(* Initial state: nothing constructed yet *)

NoResult == [call |-> "none", out |-> "none", fired |-> 0]

(* No path is on its way through the path functions *)
NoTrip == [path |-> "", key |-> "", file |-> "", out |-> ""]

InitServer(pl) ==
    /\ platform = pl
    /\ aborted = FALSE
    /\ javaServer = "none"
    /\ deleteCalls = 0
    /\ deleted = FALSE
    /\ hostPc = [t \in Threads |-> IF t = Constructor THEN "new" ELSE "idle"]
    /\ hostCmd = [t \in Threads |-> 0]
    /\ hostRes = [t \in Threads |-> NoResult]
    /\ closePaths = [t \in Threads |-> <<>>]
    /\ opsLeft = MaxOps
    /\ cmds = EmptyMap
    /\ commands = <<>>
    /\ mtxCommands = "free"
    /\ fdEventReadable = FALSE
    /\ loopPc = "none"
    /\ revents = <<FALSE, FALSE>>
    /\ drainIdx = 1
    /\ buffer = <<>>
    /\ started = FALSE
    /\ initException = NullFailure
    /\ terminated = FALSE
    /\ watchPoints = EmptyMap
    /\ watchRoots = EmptyMap
    /\ fdsOpen = {}
    /\ kWatches = {}
    /\ nextWd = 1
    /\ inotifyQ = <<>>
    /\ dirExists = [p \in Paths |-> TRUE]
    /\ dirDeleted = FALSE
    /\ osLeft = MaxOsEvents
    /\ sinkFaultsLeft = MaxSinkFaults
    /\ sinkCalls = 0
    /\ emitted = <<>>
    /\ errCalls = 0
    /\ regLog = {}
    /\ wakeFaultsLeft = MaxWakeFaults
    /\ wps = EmptyMap
    /\ apcQueue = <<>>
    /\ stack = <<>>
    /\ mutationMutex = "free"

InitFor(pl) == trip = NoTrip /\ InitServer(pl)

----------------------------------------------------------------------------
(* The sink (AbstractServer::reportChange / reportError) *)

(* reportChange: one pathChanged call; rethrowJavaException throws when    *)
(* the callback raised.                                                    *)
SinkMayThrow == IF sinkFaultsLeft > 0 THEN BOOLEAN ELSE {FALSE}

Event(type, path) == [type |-> type, path |-> path]

reportChange(type, path, throws) ==
    /\ sinkCalls' = sinkCalls + 1
    /\ emitted' = <<Event(type, path)>>
    /\ sinkFaultsLeft' = IF throws THEN sinkFaultsLeft - 1 ELSE sinkFaultsLeft

reportError(message) == errCalls' = errCalls + 1

(* AbstractServer::run: a failure leaving runLoop is given to reportError  *)
(* and the thread function returns.                                        *)
RunCatch(message) ==
    /\ reportError(message)
    /\ loopPc' = "exited"
    /\ revents' = <<FALSE, FALSE>>
    /\ buffer' = <<>>

(* Linux runLoop: the while (!terminated) test after one iteration *)
AfterIteration(term) == IF term THEN "exited" ELSE "poll"

----------------------------------------------------------------------------
(* Construction: Server::Server (Linux) and AbstractServer::startThread *)

(* createInotify, createEvent, then startThread up to its wait_for: the    *)
(* constructor holds watcherThreadMutex from before the thread exists      *)
(* until wait_for releases it.                                             *)
LinuxConstruct(t) ==
    /\ Running /\ platform = "linux"
    /\ hostPc[t] = "new"
    /\ \E os \in {"ok", "noInotify", "noEvent"} :
         CASE os = "ok" ->
                /\ fdsOpen' = {"inotify", "eventfd"}
                /\ loopPc' = "init"
                /\ hostPc' = [hostPc EXCEPT ![t] = "starting"]
                /\ UNCHANGED hostRes
           [] os = "noInotify" ->
                /\ hostPc' = [hostPc EXCEPT ![t] = "failed"]
                /\ hostRes' = [hostRes EXCEPT ![t] =
                       [call |-> "start", out |-> "register inotify handle", fired |-> 0]]
                /\ UNCHANGED <<fdsOpen, loopPc>>
           [] os = "noEvent" ->
                /\ fdsOpen' = {"inotify"}
                /\ hostPc' = [hostPc EXCEPT ![t] = "failed"]
                /\ hostRes' = [hostRes EXCEPT ![t] =
                       [call |-> "start", out |-> "register inotify handle", fired |-> 0]]
                /\ UNCHANGED loopPc
    /\ UNCHANGED <<cfgVars, aborted, lifeVars, hostCmd, closePaths, opsLeft, cmdVars,
                   revents, drainIdx, buffer, startVars, tableVars, kWatches, nextWd,
                   inotifyQ, fsVars, sinkVars, winVars>>

(* Why a wait_for without a predicate returns: the notify, a spurious      *)
(* wake-up, or the timeout. A timeout is certain once nothing can notify   *)
(* any more (`hopeless`); any other return not caused by the notify is one *)
(* of the wakeFaultsLeft anomalies of timing.                              *)
WakeReasons(notified, hopeless) ==
    (IF notified THEN {"notified"} ELSE {})
    \cup (IF hopeless /\ ~notified THEN {"timeout"} ELSE {})
    \cup (IF wakeFaultsLeft > 0 /\ ~notified THEN {"spurious"} ELSE {})
    \cup (IF wakeFaultsLeft > 0 /\ ~hopeless THEN {"timeout"} ELSE {})

WakeCost(why, notified, hopeless) ==
    IF why = "notified" \/ (why = "timeout" /\ hopeless /\ ~notified) THEN 0 ELSE 1

(* startThread after wait_for returned. A timeout throws out of the        *)
(* constructor while watcherThread is joinable: std::terminate.            *)
StartThreadReturn(t) ==
    /\ Running
    /\ hostPc[t] = "starting"
    /\ \E why \in WakeReasons(started, loopPc = "exited") :
         /\ wakeFaultsLeft' = wakeFaultsLeft - WakeCost(why, started, loopPc = "exited")
         /\ IF why = "timeout"
            THEN /\ aborted' = TRUE
                 /\ UNCHANGED <<javaServer, hostPc, hostRes>>
            ELSE IF initException # NullFailure
                 THEN /\ loopPc = "exited"          \* watcherThread.join()
                      /\ hostPc' = [hostPc EXCEPT ![t] = "failed"]
                      /\ hostRes' = [hostRes EXCEPT ![t] =
                             [call |-> "start", out |-> initException, fired |-> 0]]
                      /\ UNCHANGED <<javaServer, aborted>>
                 ELSE /\ javaServer' = "buffer"     \* wrapServer
                      /\ hostPc' = [hostPc EXCEPT ![t] = "idle"]
                      /\ hostRes' = [hostRes EXCEPT ![t] =
                             [call |-> "start", out |-> "server", fired |-> 0]]
                      /\ UNCHANGED aborted
    /\ UNCHANGED <<platform, trip, deleteCalls, deleted, hostCmd, closePaths, opsLeft, cmdVars,
                   loopVars, startVars, tableVars, kernVars, fsVars, sinkVars, winVars>>

(* AbstractServer::run up to Linux runLoop's notifyStarted(nullptr) *)
LinuxLoopStart ==
    /\ Running /\ platform = "linux"
    /\ loopPc = "init"
    /\ started' = TRUE
    /\ initException' = NullFailure
    /\ loopPc' = AfterIteration(terminated)
    /\ UNCHANGED <<cfgVars, aborted, lifeVars, hostVars, cmdVars, revents, drainIdx,
                   buffer, tableVars, kernVars, fsVars, sinkVars, winVars>>

----------------------------------------------------------------------------
(* AbstractServer::executeOnThread *)

TimedOut == "Command execution timed out"

FreeIds == CmdIds \ DOMAIN cmds

NewCommand(kind, paths, t) ==
    [kind |-> kind, paths |-> paths, owner |-> t, fired |-> 0,
     success |-> "uninit", failure |-> NullFailure]

InQueue(c) == \E i \in 1 .. Len(commands) : commands[i] = c

(* Lines 95-98: lock mtxCommands, push_back, processCommandsOnThread (the  *)
(* write to the eventfd), then wait_for, which releases the mutex.         *)
Enqueue(t, kind, paths) ==
    /\ mtxCommands = "free"
    /\ FreeIds # {}
    /\ LET c == CHOOSE i \in FreeIds : \A j \in FreeIds : i <= j IN
         /\ cmds' = MapPut(cmds, c, NewCommand(kind, paths, t))
         /\ commands' = Append(commands, c)
         /\ hostCmd' = [hostCmd EXCEPT ![t] = c]
    /\ fdEventReadable' = TRUE
    /\ UNCHANGED mtxCommands

(* The shared_ptr the submitter held goes away: the Command dies unless    *)
(* the queue still holds it.                                               *)
DropCommand(c) ==
    IF InQueue(c) THEN [cmds EXCEPT ![c].owner = "none"] ELSE MapErase(cmds, c)

(* Lines 99-106: what executeOnThread gives back once wait_for returned    *)
(* for reason `why`; `garbage` stands for a success field never written.   *)
ExecuteResult(cmd, why, garbage) ==
    IF why = "timeout" THEN TimedOut
    ELSE IF cmd.failure # NullFailure THEN cmd.failure
    ELSE IF cmd.success = "uninit" THEN garbage
    ELSE cmd.success

(* startWatching0 / stopWatching0: getServer, then executeOnThread *)
Submit(t) ==
    /\ Running /\ platform = "linux"
    /\ t = Client
    /\ hostPc[t] = "idle"
    /\ javaServer = "buffer" /\ ~deleted
    /\ opsLeft > 0
    /\ \E kind \in {"Register", "Unregister"}, paths \in PathLists :
         Enqueue(t, kind, paths)
    /\ opsLeft' = opsLeft - 1
    /\ hostPc' = [hostPc EXCEPT ![t] = "wait"]
    /\ hostRes' = [hostRes EXCEPT ![t] = NoResult]
    /\ UNCHANGED <<cfgVars, aborted, lifeVars, closePaths, loopVars,
                   startVars, tableVars, kernVars, fsVars, sinkVars, winVars>>

(* wait_for returns (re-acquiring mtxCommands) and the JNI call ends *)
WaitReturn(t) ==
    /\ Running /\ platform = "linux"
    /\ hostPc[t] = "wait"
    /\ mtxCommands = "free"
    /\ LET c == hostCmd[t]
           cmd == cmds[c]
       IN  \E why \in WakeReasons(cmd.fired > 0, loopPc = "exited"),
              garbage \in {"true", "false"} :
             LET res == ExecuteResult(cmd, why, garbage) IN
             /\ wakeFaultsLeft' =
                    wakeFaultsLeft - WakeCost(why, cmd.fired > 0, loopPc = "exited")
             /\ hostRes' = [hostRes EXCEPT ![t] =
                    [call |-> cmd.kind,
                     out |-> IF cmd.kind = "Register" /\ res \in {"true", "false"}
                             THEN "ok" ELSE res,
                     fired |-> cmd.fired]]
             /\ cmds' = DropCommand(c)
    /\ hostCmd' = [hostCmd EXCEPT ![t] = 0]
    /\ hostPc' = [hostPc EXCEPT ![t] = "idle"]
    /\ UNCHANGED <<platform, trip, aborted, lifeVars, closePaths, opsLeft, commands,
                   mtxCommands, fdEventReadable, loopVars, startVars, tableVars,
                   kernVars, fsVars, sinkVars, winVars>>

(* A thread still inside executeOnThread when the Server's memory has been *)
(* freed uses a destroyed mutex and condition variable: it may crash.      *)
UseAfterFree(t) ==
    /\ Running
    /\ hostPc[t] = "wait"
    /\ deleted
    /\ aborted' = TRUE
    /\ UNCHANGED <<cfgVars, lifeVars, hostVars, cmdVars, loopVars, startVars,
                   tableVars, kernVars, fsVars, sinkVars, winVars>>

----------------------------------------------------------------------------
(* The Linux loop thread: Server::runLoop *)

(* poll returns with the readable descriptors *)
Poll ==
    /\ Running /\ platform = "linux"
    /\ loopPc = "poll"
    /\ fdEventReadable \/ inotifyQ # <<>>
    /\ revents' = <<fdEventReadable, inotifyQ # <<>> >>
    /\ loopPc' = IF fdEventReadable THEN "cmds" ELSE "inotify"
    /\ UNCHANGED <<cfgVars, aborted, lifeVars, hostVars, cmdVars, drainIdx, buffer,
                   startVars, tableVars, kernVars, fsVars, sinkVars, winVars>>

(* poll returns -1: the failure leaves runLoop *)
PollFail ==
    /\ Running /\ platform = "linux"
    /\ loopPc = "poll"
    /\ RunCatch("Couldn't poll for events")
    /\ UNCHANGED <<cfgVars, aborted, lifeVars, hostVars, cmdVars, drainIdx,
                   startVars, tableVars, kernVars, fsVars, sinkFaultsLeft,
                   sinkCalls, emitted, winVars>>

(* read(fdProcessCommandsEvent) and the lock taken by processCommands *)
ReadEventFd ==
    /\ Running /\ platform = "linux"
    /\ loopPc = "cmds"
    /\ mtxCommands = "free"
    /\ fdEventReadable' = FALSE
    /\ mtxCommands' = "loop"
    /\ drainIdx' = 1
    /\ loopPc' = "drain"
    /\ UNCHANGED <<cfgVars, aborted, lifeVars, hostVars, cmds, commands, revents,
                   buffer, startVars, tableVars, kernVars, fsVars, sinkVars, winVars>>

(* read(fdProcessCommandsEvent) returns -1 *)
ReadEventFdFail ==
    /\ Running /\ platform = "linux"
    /\ loopPc = "cmds"
    /\ RunCatch("Couldn't read from event notifier")
    /\ UNCHANGED <<cfgVars, aborted, lifeVars, hostVars, cmdVars, drainIdx,
                   startVars, tableVars, kernVars, fsVars, sinkFaultsLeft,
                   sinkCalls, emitted, winVars>>

(* processCommands: command->execute(this) for the next queued command,    *)
(* with mtxCommands held.                                                  *)
ExecuteCommand ==
    /\ Running /\ platform = "linux"
    /\ loopPc = "drain"
    /\ drainIdx <= Len(commands)
    /\ LET c == commands[drainIdx]
           r == execute(ServerState, cmds[c])
       IN  /\ StoreServerState(r.st)
           /\ cmds' = [cmds EXCEPT ![c] = r.cmd]
    /\ drainIdx' = drainIdx + 1
    /\ UNCHANGED <<cfgVars, aborted, lifeVars, hostVars, commands, mtxCommands,
                   fdEventReadable, loopPc, revents, buffer, startVars, fdsOpen,
                   fsVars, sinkVars, winVars>>

(* processCommands: commands.clear() and the unlock *)
DrainDone ==
    /\ Running /\ platform = "linux"
    /\ loopPc = "drain"
    /\ drainIdx > Len(commands)
    /\ commands' = <<>>
    /\ cmds' = [c \in {d \in DOMAIN cmds : cmds[d].owner # "none"} |-> cmds[c]]
    /\ mtxCommands' = "free"
    /\ drainIdx' = 1
    /\ loopPc' = IF revents[2] THEN "inotify" ELSE AfterIteration(terminated)
    /\ revents' = IF revents[2] THEN revents ELSE <<FALSE, FALSE>>
    /\ UNCHANGED <<cfgVars, aborted, lifeVars, hostVars, fdEventReadable,
                   buffer, startVars, tableVars, kernVars, fsVars, sinkVars, winVars>>

(* read(fdInotify, buffer, EVENT_BUFFER_SIZE): every queued record *)
ReadInotify ==
    /\ Running /\ platform = "linux"
    /\ loopPc = "inotify"
    /\ inotifyQ # <<>>
    /\ buffer' = inotifyQ
    /\ inotifyQ' = <<>>
    /\ loopPc' = "handle"
    /\ UNCHANGED <<cfgVars, aborted, lifeVars, hostVars, cmdVars, revents, drainIdx,
                   startVars, tableVars, fdsOpen, kWatches, nextWd, fsVars, sinkVars, winVars>>

(* read(fdInotify) returns -1 *)
ReadInotifyFail ==
    /\ Running /\ platform = "linux"
    /\ loopPc = "inotify"
    /\ RunCatch("Couldn't read from inotify")
    /\ UNCHANGED <<cfgVars, aborted, lifeVars, hostVars, cmdVars, drainIdx,
                   startVars, tableVars, kernVars, fsVars, sinkFaultsLeft,
                   sinkCalls, emitted, winVars>>

(* Server::handleEvent, lines 173-183: the flag mapping *)
EventType(mask) ==
    IF IS_SET(mask, {"IN_Q_OVERFLOW"}) THEN FILE_EVENT_INVALIDATE
    ELSE IF IS_ANY_SET(mask, {"IN_CREATE", "IN_MOVED_TO"}) THEN FILE_EVENT_CREATED
    ELSE IF IS_ANY_SET(mask, {"IN_DELETE", "IN_DELETE_SELF", "IN_MOVED_FROM"})
         THEN FILE_EVENT_REMOVED
    ELSE IF IS_SET(mask, {"IN_MODIFY"}) THEN FILE_EVENT_MODIFIED
    ELSE FILE_EVENT_UNKNOWN

(* watchRoots[event->wd]: operator[] inserts an empty path for a missing key *)
WatchRootsIndex(wr, wd) == IF wd \in DOMAIN wr THEN wr ELSE MapPut(wr, wd, "")

(* Server::handleEvent (Linux) for the first record of the buffer, as one  *)
(* step of handleEventsInBuffer's loop. A failure from the sink leaves     *)
(* handleEventsInBuffer and runLoop.                                       *)
HandleEvent ==
    /\ Running /\ platform = "linux"
    /\ loopPc = "handle"
    /\ buffer # <<>>
    /\ LET event == Head(buffer)
           wr1 == WatchRootsIndex(watchRoots, event.wd)
           path == wr1[event.wd]
           next == IF Tail(buffer) = <<>> THEN AfterIteration(terminated) ELSE "handle"
       IN  IF IS_ANY_SET(event.mask, {"IN_UNMOUNT"})
           THEN /\ buffer' = Tail(buffer)
                /\ loopPc' = next
                /\ revents' = IF Tail(buffer) = <<>> THEN <<FALSE, FALSE>> ELSE revents
                /\ UNCHANGED <<tableVars, kernVars, sinkVars, winVars>>
           ELSE IF IS_SET(event.mask, {"IN_IGNORED"})
           THEN LET S0 == [ServerState EXCEPT !.wr = wr1]
                    S1 == IF path \in DOMAIN S0.wp
                          THEN LinuxWatchPointDtor(
                                   [S0 EXCEPT !.wp = MapErase(@, path)], S0.wp[path])
                          ELSE S0
                    S2 == [S1 EXCEPT !.wr = MapErase(@, event.wd)]
                IN  /\ StoreServerState(S2)
                    /\ buffer' = Tail(buffer)
                    /\ loopPc' = next
                    /\ revents' = IF Tail(buffer) = <<>> THEN <<FALSE, FALSE>> ELSE revents
                    /\ UNCHANGED <<fdsOpen, sinkVars, winVars>>
           ELSE \E throws \in SinkMayThrow :
                    /\ reportChange(EventType(event.mask),
                                    IF event.name # "" THEN path \o "/" \o event.name
                                    ELSE path,
                                    throws)
                    /\ watchRoots' = wr1
                    /\ IF throws
                       THEN RunCatch("sink failure")
                       ELSE /\ buffer' = Tail(buffer)
                            /\ loopPc' = next
                            /\ revents' = IF Tail(buffer) = <<>>
                                          THEN <<FALSE, FALSE>> ELSE revents
                            /\ UNCHANGED errCalls
                    /\ UNCHANGED <<terminated, watchPoints, regLog, kernVars, winVars>>
    /\ UNCHANGED <<cfgVars, aborted, lifeVars, hostVars, cmdVars, drainIdx,
                   startVars, fsVars>>

----------------------------------------------------------------------------
(* close0: getServer, then delete server (Linux Server::~Server) *)

KeysInOrder(keys) == SelectSeq(PathOrder, LAMBDA p : p \in keys)

HasIgnored(records) ==
    \E i \in 1 .. Len(records) :
        /\ IS_SET(records[i].mask, {"IN_IGNORED"})
        /\ records[i].wd \in DOMAIN watchRoots

(* The loop thread has a change of the table ahead of it, not ordered with *)
(* the closing thread's walk over watchPoints.                             *)
PendingMutation ==
    /\ loopPc \notin {"none", "exited"}
    /\ \/ \E i \in 1 .. Len(commands) :
            /\ loopPc = "drain" => i >= drainIdx
            /\ cmds[commands[i]].kind # "Terminate"
       \/ HasIgnored(buffer)
       \/ HasIgnored(inotifyQ)

(* Lines 67-70: the copy of the table's keys. Unordered with a change by   *)
(* the loop thread it is a data race: any set of keys may be seen.         *)
Snapshots ==
    IF PendingMutation THEN {KeysInOrder(s) : s \in SUBSET Paths}
    ELSE {KeysInOrder(DOMAIN watchPoints)}

(* getServer never sees NULL for a buffer wrapServer made: close0 does not *)
(* clear it. The first delete runs ~Server; a later one is a second delete *)
(* of the same object.                                                     *)
Close0(t) ==
    /\ Running /\ platform = "linux"
    /\ t = Constructor
    /\ hostPc[t] = "idle"
    /\ javaServer = "buffer"
    /\ deleteCalls < MaxCloses
    /\ deleteCalls' = deleteCalls + 1
    /\ IF deleteCalls = 0
       THEN \/ /\ \E snap \in Snapshots :
                    closePaths' = [closePaths EXCEPT ![t] = snap]
               /\ hostPc' = [hostPc EXCEPT ![t] = "closing"]
               /\ UNCHANGED <<aborted, hostRes>>
            \/ /\ PendingMutation
               /\ aborted' = TRUE
               /\ UNCHANGED <<closePaths, hostPc, hostRes>>
       ELSE \/ /\ aborted' = TRUE
               /\ UNCHANGED <<closePaths, hostPc, hostRes>>
            \/ /\ hostRes' = [hostRes EXCEPT ![t] =
                      [call |-> "close", out |-> "deleted twice", fired |-> 0]]
               /\ UNCHANGED <<aborted, closePaths, hostPc>>
    /\ UNCHANGED <<cfgVars, javaServer, deleted, hostCmd, opsLeft, cmdVars, loopVars,
                   startVars, tableVars, kernVars, fsVars, sinkVars, winVars>>

(* Lines 71-74: one executeOnThread per copied path, then the terminate *)
CloseSubmit(t) ==
    /\ Running /\ platform = "linux"
    /\ hostPc[t] = "closing"
    /\ IF closePaths[t] # <<>>
       THEN Enqueue(t, "UnregisterPath", <<Head(closePaths[t])>>)
       ELSE Enqueue(t, "Terminate", <<>>)
    /\ hostPc' = [hostPc EXCEPT ![t] = "closewait"]
    /\ UNCHANGED <<cfgVars, aborted, lifeVars, hostRes, closePaths, opsLeft, loopVars,
                   startVars, tableVars, kernVars, fsVars, sinkVars, winVars>>

(* executeOnThread returns inside the destructor: a failure or a timeout   *)
(* is thrown out of ~Server, which ends the process.                       *)
CloseWaitReturn(t) ==
    /\ Running /\ platform = "linux"
    /\ hostPc[t] = "closewait"
    /\ mtxCommands = "free"
    /\ LET c == hostCmd[t]
           cmd == cmds[c]
       IN  \E why \in WakeReasons(cmd.fired > 0, loopPc = "exited") :
             LET res == ExecuteResult(cmd, why, "true") IN
             /\ wakeFaultsLeft' =
                    wakeFaultsLeft - WakeCost(why, cmd.fired > 0, loopPc = "exited")
             /\ cmds' = DropCommand(c)
             /\ IF res \notin {"true", "false"}
                THEN /\ aborted' = TRUE
                     /\ UNCHANGED <<hostPc, closePaths>>
                ELSE /\ hostPc' = [hostPc EXCEPT ![t] =
                            IF cmd.kind = "Terminate" THEN "join" ELSE "closing"]
                     /\ closePaths' = [closePaths EXCEPT ![t] =
                            IF cmd.kind = "Terminate" THEN @ ELSE Tail(@)]
                     /\ UNCHANGED aborted
    /\ hostCmd' = [hostCmd EXCEPT ![t] = 0]
    /\ UNCHANGED <<platform, trip, lifeVars, hostRes, opsLeft, commands, mtxCommands,
                   fdEventReadable, loopVars, startVars, tableVars, kernVars, fsVars,
                   sinkVars, winVars>>

(* A join that does not wait for the thread function *)
ThreadJoinSkipped == TRUE

(* watcherThread.join() returns once the thread function has returned *)
ThreadJoined == loopPc = "exited"

(* Lines 76-82 and the members' destructors: join, close both descriptors  *)
(* (closing the inotify descriptor frees its watches), destroy the table.  *)
CloseJoin(t) ==
    /\ Running /\ platform = "linux"
    /\ hostPc[t] = "join"
    /\ ThreadJoined
    /\ fdsOpen' = {}
    /\ kWatches' = {}
    /\ inotifyQ' = <<>>
    /\ watchPoints' = EmptyMap
    /\ watchRoots' = EmptyMap
    /\ commands' = <<>>
    /\ cmds' = [c \in {d \in DOMAIN cmds : cmds[d].owner # "none"} |-> cmds[c]]
    /\ deleted' = TRUE
    /\ hostPc' = [hostPc EXCEPT ![t] = "idle"]
    /\ hostRes' = [hostRes EXCEPT ![t] = [call |-> "close", out |-> "ok", fired |-> 0]]
    /\ UNCHANGED <<cfgVars, aborted, javaServer, deleteCalls, hostCmd, closePaths,
                   opsLeft, mtxCommands, fdEventReadable, loopVars, startVars,
                   terminated, regLog, nextWd, fsVars, sinkVars, winVars>>

----------------------------------------------------------------------------
(* The Linux kernel and the file system *)

FileMasks == {{"IN_CREATE"}}

(* A file changes inside a watched directory *)
OsFileEvent ==
    /\ Running /\ platform = "linux"
    /\ loopPc = "poll"
    /\ osLeft > 0
    /\ \E w \in kWatches, mask \in FileMasks :
         inotifyQ' = Append(inotifyQ, [wd |-> w.wd, mask |-> mask, name |-> "f"])
    /\ osLeft' = osLeft - 1
    /\ UNCHANGED <<cfgVars, aborted, lifeVars, hostVars, cmdVars, loopVars, startVars,
                   tableVars, fdsOpen, kWatches, nextWd, dirExists, dirDeleted,
                   sinkVars, winVars>>

(* The kernel queue overflows: one record with wd = -1 *)
OsOverflow ==
    /\ Running /\ platform = "linux"
    /\ loopPc = "poll"
    /\ osLeft > 0
    /\ kWatches # {}
    /\ inotifyQ' = Append(inotifyQ, [wd |-> -1, mask |-> {"IN_Q_OVERFLOW"}, name |-> ""])
    /\ osLeft' = osLeft - 1
    /\ UNCHANGED <<cfgVars, aborted, lifeVars, hostVars, cmdVars, loopVars, startVars,
                   tableVars, fdsOpen, kWatches, nextWd, dirExists, dirDeleted,
                   sinkVars, winVars>>

DeletablePaths == {PathA}

(* A directory is deleted: IN_DELETE_SELF then IN_IGNORED for its watch *)
OsDeleteDir ==
    /\ Running /\ platform = "linux"
    /\ loopPc = "poll"
    /\ osLeft > 0
    /\ "inotify" \in fdsOpen
    /\ \E p \in DeletablePaths :
         /\ dirExists[p]
         /\ dirExists' = [dirExists EXCEPT ![p] = FALSE]
         /\ IF \E w \in kWatches : w.path = p
            THEN LET w == CHOOSE x \in kWatches : x.path = p IN
                 /\ kWatches' = kWatches \ {w}
                 /\ inotifyQ' = inotifyQ \o
                        << [wd |-> w.wd, mask |-> {"IN_DELETE_SELF"}, name |-> ""],
                           IgnoredRecord(w.wd) >>
            ELSE UNCHANGED <<kWatches, inotifyQ>>
    /\ dirDeleted' = TRUE
    /\ osLeft' = osLeft - 1
    /\ UNCHANGED <<cfgVars, aborted, lifeVars, hostVars, cmdVars, loopVars, startVars,
                   tableVars, fdsOpen, nextWd, sinkVars, winVars>>

----------------------------------------------------------------------------
(* The Windows backend: path forms (win_fsnotifier.cpp) *)

LongPrefix == "\\\\?\\"
UncLongPrefix == "\\\\?\\UNC\\"

Letters == {"a", "b", "c", "d", "e", "f", "g", "h", "i", "j", "k", "l", "m",
            "n", "o", "p", "q", "r", "s", "t", "u", "v", "w", "x", "y", "z",
            "A", "B", "C", "D", "E", "F", "G", "H", "I", "J", "K", "L", "M",
            "N", "O", "P", "Q", "R", "S", "T", "U", "V", "W", "X", "Y", "Z"}

CharAt(path, i) == SubSeq(path, i, i)

isAbsoluteLocalPath(path) ==
    /\ Len(path) >= 3
    /\ CharAt(path, 1) \in Letters
    /\ CharAt(path, 2) = ":"
    /\ CharAt(path, 3) = "\\"

isAbsoluteUncPath(path) ==
    /\ Len(path) >= 3
    /\ CharAt(path, 1) = "\\"
    /\ CharAt(path, 2) = "\\"

isLongPath(path) == Len(path) >= 4 /\ SubSeq(path, 1, 4) = LongPrefix

isUncLongPath(path) == Len(path) >= 8 /\ SubSeq(path, 1, 8) = UncLongPrefix

(* A conversion that starts at MAX_PATH instead of at 240 code units *)
convertToLongPathAboveMaxPath(path) ==
    IF Len(path) <= 260 THEN path
    ELSE IF isLongPath(path) THEN path
    ELSE IF isAbsoluteLocalPath(path) THEN LongPrefix \o path
    ELSE IF isAbsoluteUncPath(path)
         THEN UncLongPrefix \o SubSeq(path, 3, Len(path))
    ELSE path

convertToLongPathIfNeeded(path) ==
    IF Len(path) <= LONG_PATH_LIMIT THEN path
    ELSE IF isLongPath(path) THEN path
    ELSE IF isAbsoluteLocalPath(path) THEN LongPrefix \o path
    ELSE IF isAbsoluteUncPath(path)
         THEN UncLongPrefix \o SubSeq(path, 3, Len(path))
    ELSE path

(* Server::handleEvent (Windows), lines 245-258: the path given to the sink *)
WinChangedPath(path, name) ==
    LET changedPath == IF name # "" THEN path \o "\\" \o name ELSE path
    IN  IF isLongPath(changedPath)
        THEN IF isUncLongPath(changedPath)
             THEN "\\\\" \o SubSeq(changedPath, 9, Len(changedPath))
             ELSE SubSeq(changedPath, 5, Len(changedPath))
        ELSE changedPath

(* The table key of a path given by the host *)
KeyOf(path) == IF platform = "win" THEN convertToLongPathIfNeeded(path) ELSE path

(* The directory a WatchPoint's path names *)
DirOf(key) == CHOOSE p \in Paths : KeyOf(p) = key

----------------------------------------------------------------------------
(* Windows WatchPoint objects. open: the directory handle is open; io: the *)
(* state of the overlapped ReadDirectoryChangesW ("none", "pending", or    *)
(* "cancelling" once CancelIoEx accepted it); alive: not yet destroyed.    *)

WpIds == 1 .. MaxWatchPoints

FreeWpIds == WpIds \ DOMAIN wps

ApcFor(queue, kind, id) ==
    \E i \in 1 .. Len(queue) : queue[i].kind = kind /\ queue[i].id = id

(* WatchPoint::close *)
WatchPointClose(wp) ==
    IF wp.status # "FINISHED"
    THEN [wp EXCEPT !.open = FALSE, !.status = "FINISHED"]
    ELSE wp

(* WatchPoint::listen given what ReadDirectoryChangesW did: "ok", "denied" *)
(* (ERROR_ACCESS_DENIED on a directory that is gone) or "fail".            *)
WatchPointListen(wp, os) ==
    IF os = "ok"
    THEN [wp |-> [wp EXCEPT !.status = "LISTENING", !.io = "pending"],
          result |-> "SUCCESS"]
    ELSE [wp |-> WatchPointClose(wp),
          result |-> IF os = "denied" /\ ~dirExists[DirOf(wp.path)]
                     THEN "DELETED" ELSE "throw"]

(* What ReadDirectoryChangesW can do for a directory *)
ListenOutcomes(key) ==
    IF ~dirExists[DirOf(key)] THEN {"denied"}
    ELSE {"ok"} \cup (IF osLeft > 0 THEN {"fail"} ELSE {})

(* WatchPoint::cancel: CancelIoEx succeeds while the read is outstanding   *)
(* and fails with ERROR_NOT_FOUND once it has completed.                   *)
WatchPointCancel(wp) ==
    IF wp.status = "LISTENING"
    THEN IF wp.io = "pending"
         THEN [wp |-> [wp EXCEPT !.status = "CANCELLED", !.io = "cancelling"],
               cancelled |-> TRUE]
         ELSE [wp |-> WatchPointClose([wp EXCEPT !.status = "CANCELLED"]),
               cancelled |-> FALSE]
    ELSE [wp |-> wp, cancelled |-> FALSE]

(* The end of WatchPoint::~WatchPoint: the object is gone. What the kernel *)
(* still holds for it (an open handle, a read in flight) or a completion   *)
(* already queued for it outlives the object.                              *)
Destroyed(W, queue, w) ==
    IF W[w].open \/ W[w].io # "none" \/ ApcFor(queue, "io", w)
    THEN [W EXCEPT ![w].alive = FALSE, ![w].status = "FREED"]
    ELSE MapErase(W, w)

(* WatchPoint::~WatchPoint when it does not wait: cancel() gave false *)
WatchPointDtorNoWait(W, queue, w) ==
    Destroyed([W EXCEPT ![w] = WatchPointCancel(W[w]).wp], queue, w)

(* Server::registerPath (Windows). os: what CreateFileW and                *)
(* ReadDirectoryChangesW do. Gives the table, the objects and the failure. *)
WinRegisterPath(T, W, queue, path, os) ==
    LET longPath == convertToLongPathIfNeeded(path)
        found == longPath \in DOMAIN T
        T1 == IF found THEN MapErase(T, longPath) ELSE T
        W1 == IF found THEN WatchPointDtorNoWait(W, queue, T[longPath]) ELSE W
        w == CHOOSE i \in WpIds \ DOMAIN W1 : \A j \in WpIds \ DOMAIN W1 : i <= j
        made == [path |-> longPath, status |-> "NOT_LISTENING", open |-> TRUE,
                 io |-> "none", alive |-> TRUE]
        heard == WatchPointListen(made, os)
    IN  IF found /\ W[T[longPath]].status # "FINISHED"
        THEN [T |-> T, W |-> W, failure |-> "Already watching path"]
        ELSE IF ~dirExists[DirOf(longPath)]
        THEN [T |-> T1, W |-> W1, failure |-> "Couldn't add watch"]
        ELSE IF heard.result = "SUCCESS"
        THEN [T |-> MapPut(T1, longPath, w), W |-> MapPut(W1, w, heard.wp),
              failure |-> NullFailure]
        ELSE [T |-> T1, W |-> W1,
              failure |-> IF heard.result = "DELETED"
                          THEN "Couldn't start watching because path is not a directory"
                          ELSE "Couldn't start watching"]

(* Server::unregisterPath (Windows): erase runs ~WatchPoint, whose cancel() *)
(* may ask for the SleepEx(0, true) before the object is gone (`wait`).    *)
WinUnregisterPath(T, W, queue, path) ==
    LET longPath == convertToLongPathIfNeeded(path) IN
    IF longPath \notin DOMAIN T
    THEN [T |-> T, W |-> W, result |-> FALSE, wait |-> 0]
    ELSE LET w == T[longPath]
             c == WatchPointCancel(W[w])
         IN  IF c.cancelled
             THEN [T |-> MapErase(T, longPath), W |-> [W EXCEPT ![w] = c.wp],
                   result |-> TRUE, wait |-> w]
             ELSE [T |-> MapErase(T, longPath),
                   W |-> WatchPointDtorNoWait(W, queue, w),
                   result |-> TRUE, wait |-> 0]

----------------------------------------------------------------------------
(* Windows: construction and the start of the loop thread *)

(* Server::Server (Windows) and AbstractServer::startThread up to wait_for *)
WinConstruct(t) ==
    /\ Running /\ platform = "win"
    /\ hostPc[t] = "new"
    /\ loopPc' = "init"
    /\ hostPc' = [hostPc EXCEPT ![t] = "starting"]
    /\ UNCHANGED <<cfgVars, aborted, lifeVars, hostCmd, hostRes, closePaths, opsLeft,
                   cmdVars, revents, drainIdx, buffer, startVars, tableVars, kernVars,
                   fsVars, sinkVars, winVars>>

(* The thread function: Server::initializeRunLoop, then the started        *)
(* callback with null or with the failure, then Server::runLoop.           *)
WinLoopStart ==
    /\ Running /\ platform = "win"
    /\ loopPc = "init"
    /\ started' = TRUE
    /\ \E opened \in BOOLEAN :
         IF opened
         THEN /\ fdsOpen' = fdsOpen \cup {"thread"}
              /\ initException' = NullFailure
              /\ loopPc' = "sleep"
         ELSE /\ initException' = "Couldn't open current thread"
              /\ loopPc' = "exited"
              /\ UNCHANGED fdsOpen
    /\ UNCHANGED <<cfgVars, aborted, lifeVars, hostVars, cmdVars, revents, drainIdx,
                   buffer, tableVars, kWatches, nextWd, inotifyQ, fsVars, sinkVars,
                   winVars>>

----------------------------------------------------------------------------
(* Windows: Server::executeOnRunLoop *)

WinTimedOut == "Execution timed out"

CmdApc(c) == [kind |-> "cmd", id |-> c, err |-> ""]
IoApc(w, err) == [kind |-> "io", id |-> w, err |-> err]

Top(frames) == frames[Len(frames)]
Pop(frames) == SubSeq(frames, 1, Len(frames) - 1)

FrameFor(c) == \E i \in 1 .. Len(stack) : stack[i].f = "cmd" /\ stack[i].id = c

(* A Command is a local of executeOnRunLoop: its slot is free for the next *)
(* one when nothing queued or running points at it.                        *)
WinFreeIds == {c \in CmdIds \ DOMAIN cmds : ~ApcFor(apcQueue, "cmd", c) /\ ~FrameFor(c)}

(* The loop thread no longer runs APCs *)
LoopGone == loopPc \in {"exited", "deadlock"}

(* Lines 377-383: QueueUserAPC, then wait_for. The result says whether the *)
(* APC was queued.                                                         *)
WinEnqueue(t, kind, paths) ==
    IF "thread" \in fdsOpen
    THEN /\ WinFreeIds # {}
         /\ LET c == CHOOSE i \in WinFreeIds : \A j \in WinFreeIds : i <= j IN
              /\ cmds' = MapPut(cmds, c, NewCommand(kind, paths, t))
              /\ apcQueue' = Append(apcQueue, CmdApc(c))
              /\ hostCmd' = [hostCmd EXCEPT ![t] = c]
    ELSE UNCHANGED <<cmds, apcQueue, hostCmd>>

(* Lines 384-392: what executeOnRunLoop gives back *)
WinExecuteResult(cmd, why, garbage) ==
    IF why = "timeout" THEN WinTimedOut
    ELSE IF cmd.failure # NullFailure THEN cmd.failure
    ELSE IF cmd.success = "uninit" THEN garbage
    ELSE cmd.success

(* Server::registerPaths / Server::unregisterPaths (Windows) up to wait_for *)
WinSubmit(t) ==
    /\ Running /\ platform = "win"
    /\ t = Client
    /\ hostPc[t] = "idle"
    /\ javaServer = "buffer" /\ ~deleted
    /\ opsLeft > 0
    /\ \E kind \in {"Register", "Unregister"}, paths \in PathLists :
         /\ WinEnqueue(t, kind, paths)
         /\ IF "thread" \in fdsOpen
            THEN /\ hostPc' = [hostPc EXCEPT ![t] = "wait"]
                 /\ hostRes' = [hostRes EXCEPT ![t] = NoResult]
            ELSE /\ hostRes' = [hostRes EXCEPT ![t] =
                        [call |-> kind, out |-> "Received error while queuing APC",
                         fired |-> 0]]
                 /\ UNCHANGED hostPc
    /\ opsLeft' = opsLeft - 1
    /\ UNCHANGED <<cfgVars, aborted, lifeVars, closePaths, commands, mtxCommands,
                   fdEventReadable, loopVars, startVars, tableVars, kernVars, fsVars,
                   sinkVars, wps, stack, mutationMutex>>

(* wait_for returns; the Command dies with executeOnRunLoop's frame *)
WinWaitReturn(t) ==
    /\ Running /\ platform = "win"
    /\ hostPc[t] = "wait"
    /\ LET c == hostCmd[t]
           cmd == cmds[c]
       IN  \E why \in WakeReasons(cmd.fired > 0, LoopGone),
              garbage \in {"true", "false"} :
             LET res == WinExecuteResult(cmd, why, garbage) IN
             /\ wakeFaultsLeft' = wakeFaultsLeft - WakeCost(why, cmd.fired > 0, LoopGone)
             /\ hostRes' = [hostRes EXCEPT ![t] =
                    [call |-> cmd.kind,
                     out |-> IF cmd.kind = "Register" /\ res \in {"true", "false"}
                             THEN "ok" ELSE res,
                     fired |-> cmd.fired]]
             /\ cmds' = MapErase(cmds, c)
    /\ hostCmd' = [hostCmd EXCEPT ![t] = 0]
    /\ hostPc' = [hostPc EXCEPT ![t] = "idle"]
    /\ UNCHANGED <<platform, trip, aborted, lifeVars, closePaths, opsLeft, commands,
                   mtxCommands, fdEventReadable, loopVars, startVars, tableVars,
                   kernVars, fsVars, sinkVars, winVars>>

----------------------------------------------------------------------------
(* Windows: the loop thread. It runs APCs while it is in an alertable      *)
(* wait: the SleepEx(INFINITE, true) of runLoop, runLoop's final           *)
(* SleepEx(0, true), or the SleepEx(0, true) of a ~WatchPoint that a       *)
(* command is in the middle of (a "dtor" frame on top of the stack).       *)

InAlertable ==
    /\ loopPc \in {"sleep", "finalwait"}
    /\ IF stack = <<>> THEN TRUE ELSE Top(stack).f = "dtor"

BoolStr(b) == IF b THEN "true" ELSE "false"

(* executeOnRunLoopCallback, lines 367-373: result or failure is written   *)
(* into the Command, then executed.notify_all(). A Command whose frame is  *)
(* gone is written through a dangling pointer (see WinDangling).           *)
Completed(C, c, success, failure) ==
    IF c \notin DOMAIN C THEN C
    ELSE IF failure # NullFailure
    THEN [C EXCEPT ![c].fired = @ + 1, ![c].failure = failure]
    ELSE [C EXCEPT ![c].fired = @ + 1, ![c].success = success]

CmdFrame(c, kind, todo) ==
    [f |-> "cmd", id |-> c, kind |-> kind, todo |-> todo, ok |-> TRUE]
DtorFrame(w) ==
    [f |-> "dtor", id |-> w, kind |-> "", todo |-> <<>>, ok |-> TRUE]

FrameResult(fr) == IF fr.kind = "Register" THEN "true" ELSE BoolStr(fr.ok)

(* An APC of executeOnRunLoop is delivered: the callback starts the        *)
(* command's function. terminateRunLoop's function is one assignment.      *)
WinRunCommandApc ==
    /\ Running /\ platform = "win"
    /\ InAlertable
    /\ apcQueue # <<>> /\ Head(apcQueue).kind = "cmd"
    /\ LET c == Head(apcQueue).id IN
         /\ apcQueue' = Tail(apcQueue)
         /\ IF c \notin DOMAIN cmds
            THEN UNCHANGED <<cmds, stack, terminated>>
            ELSE IF cmds[c].kind = "Terminate"
            THEN /\ terminated' = TRUE
                 /\ cmds' = Completed(cmds, c, "true", NullFailure)
                 /\ UNCHANGED stack
            ELSE /\ stack' = Append(stack, CmdFrame(c, cmds[c].kind, cmds[c].paths))
                 /\ UNCHANGED <<cmds, terminated>>
    /\ UNCHANGED <<cfgVars, aborted, lifeVars, hostVars, commands, mtxCommands,
                   fdEventReadable, loopVars, startVars, watchPoints, watchRoots, regLog,
                   kernVars, fsVars, sinkVars, wps, mutationMutex>>

(* AbstractServer::registerPaths / unregisterPaths inside the callback:    *)
(* one path of the loop. A failure ends the command; after the last path   *)
(* the callback stores the result and notifies.                            *)
WinCommandStep ==
    /\ Running /\ platform = "win"
    /\ stack # <<>> /\ Top(stack).f = "cmd" /\ Top(stack).todo # <<>>
    /\ LET fr == Top(stack)
           path == Head(fr.todo)
           rest == Tail(fr.todo)
       IN  IF fr.kind = "Register"
           THEN \E os \in ListenOutcomes(KeyOf(path)) :
                  LET r == WinRegisterPath(watchPoints, wps, apcQueue, path, os)
                      heard == r.failure \in {NullFailure, "Couldn't start watching"}
                  IN  /\ os = "fail" => heard
                      /\ watchPoints' = r.T
                      /\ wps' = r.W
                      /\ osLeft' = IF os = "fail" THEN osLeft - 1 ELSE osLeft
                      /\ regLog' = IF r.failure = NullFailure
                                   THEN regLog \cup {path} ELSE regLog
                      /\ IF r.failure # NullFailure \/ rest = <<>>
                         THEN /\ cmds' = Completed(cmds, fr.id, "true", r.failure)
                              /\ stack' = Pop(stack)
                         ELSE /\ stack' = Append(Pop(stack), [fr EXCEPT !.todo = rest])
                              /\ UNCHANGED cmds
           ELSE LET r == WinUnregisterPath(watchPoints, wps, apcQueue, path)
                    fr1 == [fr EXCEPT !.todo = rest, !.ok = fr.ok /\ r.result]
                IN  /\ watchPoints' = r.T
                    /\ wps' = r.W
                    /\ regLog' = regLog \ {path}
                    /\ UNCHANGED osLeft
                    /\ IF r.wait # 0
                       THEN /\ stack' = Pop(stack) \o <<fr1, DtorFrame(r.wait)>>
                            /\ UNCHANGED cmds
                       ELSE IF rest = <<>>
                       THEN /\ cmds' = Completed(cmds, fr.id, FrameResult(fr1), NullFailure)
                            /\ stack' = Pop(stack)
                       ELSE /\ stack' = Append(Pop(stack), fr1)
                            /\ UNCHANGED cmds
    /\ UNCHANGED <<cfgVars, aborted, lifeVars, hostVars, commands, mtxCommands,
                   fdEventReadable, loopVars, startVars, terminated, watchRoots,
                   kernVars, dirExists, dirDeleted, sinkVars, apcQueue, mutationMutex>>

(* ~WatchPoint's SleepEx(0, true) returns when no APC is queued: the       *)
(* WatchPoint is gone and the command that erased it goes on.              *)
WinDtorReturn ==
    /\ Running /\ platform = "win"
    /\ stack # <<>> /\ Top(stack).f = "dtor"
    /\ apcQueue = <<>>
    /\ wps' = Destroyed(wps, apcQueue, Top(stack).id)
    /\ LET below == Pop(stack)
           fr == Top(below)
       IN  IF fr.todo = <<>>
           THEN /\ cmds' = Completed(cmds, fr.id, FrameResult(fr), NullFailure)
                /\ stack' = Pop(below)
           ELSE /\ stack' = below
                /\ UNCHANGED cmds
    /\ UNCHANGED <<cfgVars, aborted, lifeVars, hostVars, commands, mtxCommands,
                   fdEventReadable, loopVars, startVars, tableVars, kernVars, fsVars,
                   sinkVars, apcQueue, mutationMutex>>

(* Server::handleEvents for a completion `err` ("ok": one record; "zero":  *)
(* no bytes; "denied"; "error"), where listen() meets `os` and the sink    *)
(* throws in its throwAt-th call (0: never). Gives the WatchPoint, the     *)
(* calls made to pathChanged and the number of reportError calls.          *)
WinHandleEvents(wp, err, os, throwAt) ==
    LET gone == err = "denied" /\ ~dirExists[DirOf(wp.path)]
        first == IF gone THEN <<Event(FILE_EVENT_REMOVED, wp.path)>> ELSE <<>>
        decoded == IF err = "ok"
                   THEN <<Event(FILE_EVENT_CREATED, WinChangedPath(wp.path, "f"))>>
                   ELSE <<Event(FILE_EVENT_INVALIDATE, wp.path)>>
        heard == WatchPointListen(wp, os)
        last == IF heard.result = "DELETED"
                THEN <<Event(FILE_EVENT_REMOVED, wp.path)>> ELSE <<>>
        before == IF terminated THEN first ELSE first \o decoded
        all == IF terminated THEN first ELSE before \o last
    IN  IF err \notin {"ok", "zero"} /\ ~gone
        THEN [wp |-> wp, events |-> <<>>, errors |-> 1, listened |-> FALSE]
        ELSE IF throwAt > 0
        THEN [wp |-> IF throwAt > Len(before) THEN heard.wp ELSE wp,
              events |-> SubSeq(all, 1, throwAt), errors |-> 1,
              listened |-> throwAt > Len(before)]
        ELSE IF terminated
        THEN [wp |-> wp, events |-> first, errors |-> 0, listened |-> FALSE]
        ELSE [wp |-> heard.wp, events |-> all,
              errors |-> IF heard.result = "throw" THEN 1 ELSE 0, listened |-> TRUE]

(* The number of pathChanged calls handleEvents can reach *)
WinCallsAhead(wp, err, os) == Len(WinHandleEvents(wp, err, os, 0).events)

(* handleEventCallback -> WatchPoint::handleEventsInBuffer: a completion   *)
(* APC is delivered. handleEvents locks mutationMutex, which the loop      *)
(* thread itself holds during runLoop's final wait: locking a std::mutex   *)
(* the thread already owns blocks forever or ends the process.             *)
WinCompletion ==
    /\ Running /\ platform = "win"
    /\ InAlertable
    /\ apcQueue # <<>> /\ Head(apcQueue).kind = "io"
    /\ apcQueue' = Tail(apcQueue)
    /\ LET w == Head(apcQueue).id
           err == Head(apcQueue).err
           wp == wps[w]
           quiet == UNCHANGED <<aborted, loopPc, sinkVars, osLeft>>
       IN  IF ~wp.alive
           THEN /\ wps' = Destroyed(wps, Tail(apcQueue), w)
                /\ quiet
           ELSE IF err = "aborted"
           THEN /\ wps' = [wps EXCEPT ![w] = WatchPointClose(wp)]
                /\ quiet
           ELSE IF wp.status # "LISTENING"
           THEN /\ UNCHANGED wps
                /\ quiet
           ELSE IF mutationMutex = "loop"
           THEN /\ wps' = [wps EXCEPT ![w].status = "NOT_LISTENING"]
                /\ \/ loopPc' = "deadlock" /\ UNCHANGED aborted
                   \/ aborted' = TRUE /\ UNCHANGED loopPc
                /\ UNCHANGED <<sinkVars, osLeft>>
           ELSE \E os \in ListenOutcomes(wp.path) :
                  LET wp1 == [wp EXCEPT !.status = "NOT_LISTENING"] IN
                  \E throwAt \in 0 .. (IF sinkFaultsLeft > 0
                                       THEN WinCallsAhead(wp1, err, os) ELSE 0) :
                    LET r == WinHandleEvents(wp1, err, os, throwAt) IN
                    /\ os = "fail" => r.listened
                    /\ wps' = [wps EXCEPT ![w] = r.wp]
                    /\ sinkCalls' = sinkCalls + Len(r.events)
                    /\ emitted' = r.events
                    /\ errCalls' = errCalls + r.errors
                    /\ sinkFaultsLeft' = IF throwAt > 0 THEN sinkFaultsLeft - 1
                                         ELSE sinkFaultsLeft
                    /\ osLeft' = IF os = "fail" THEN osLeft - 1 ELSE osLeft
                    /\ UNCHANGED <<aborted, loopPc>>
    /\ UNCHANGED <<cfgVars, lifeVars, hostVars, cmdVars, revents, drainIdx,
                   buffer, startVars, tableVars, kernVars, dirExists, dirDeleted,
                   stack, mutationMutex>>

TableWps == {watchPoints[k] : k \in DOMAIN watchPoints}

(* Server::runLoop, lines 306-336: SleepEx(INFINITE, true) has returned    *)
(* with terminated set; under mutationMutex every WatchPoint in the table  *)
(* that is LISTENING is cancelled. With nothing pending the thread closes  *)
(* its handle and ends; otherwise it goes into the final SleepEx(0, true). *)
WinTeardown ==
    /\ Running /\ platform = "win"
    /\ loopPc = "sleep" /\ stack = <<>> /\ apcQueue = <<>>
    /\ terminated
    /\ LET pending == {w \in TableWps :
                          \/ WatchPointCancel(wps[w]).cancelled
                          \/ wps[w].status = "CANCELLED"}
       IN  /\ wps' = [w \in DOMAIN wps |->
                         IF w \in TableWps THEN WatchPointCancel(wps[w]).wp ELSE wps[w]]
           /\ IF pending # {}
              THEN /\ loopPc' = "finalwait"
                   /\ mutationMutex' = "loop"
                   /\ UNCHANGED fdsOpen
              ELSE /\ loopPc' = "exited"
                   /\ fdsOpen' = fdsOpen \ {"thread"}
                   /\ UNCHANGED mutationMutex
    /\ UNCHANGED <<cfgVars, aborted, lifeVars, hostVars, cmdVars, revents, drainIdx,
                   buffer, startVars, tableVars, kWatches, nextWd, inotifyQ, fsVars,
                   sinkVars, apcQueue, stack>>

(* Server::runLoop, lines 337-354: the final wait returns with no APC      *)
(* queued; CloseHandle(threadHandle); the thread function ends.            *)
WinFinalEnd ==
    /\ Running /\ platform = "win"
    /\ loopPc = "finalwait" /\ stack = <<>> /\ apcQueue = <<>>
    /\ loopPc' = "exited"
    /\ fdsOpen' = fdsOpen \ {"thread"}
    /\ mutationMutex' = "free"
    /\ UNCHANGED <<cfgVars, aborted, lifeVars, hostVars, cmdVars, revents, drainIdx,
                   buffer, startVars, tableVars, kWatches, nextWd, inotifyQ, fsVars,
                   sinkVars, wps, apcQueue, stack>>

(* A callback that runs for a Command or a WatchPoint that no longer       *)
(* exists works on freed memory: besides going on, it may crash.           *)
WinDangling ==
    /\ Running /\ platform = "win"
    /\ \/ /\ InAlertable /\ apcQueue # <<>>
          /\ \/ Head(apcQueue).kind = "cmd" /\ Head(apcQueue).id \notin DOMAIN cmds
             \/ Head(apcQueue).kind = "io" /\ ~wps[Head(apcQueue).id].alive
       \/ \E i \in 1 .. Len(stack) :
             stack[i].f = "cmd" /\ stack[i].id \notin DOMAIN cmds
    /\ aborted' = TRUE
    /\ UNCHANGED <<cfgVars, lifeVars, hostVars, cmdVars, loopVars, startVars,
                   tableVars, kernVars, fsVars, sinkVars, winVars>>

----------------------------------------------------------------------------
(* Windows: close0. delete server ends the run loop with terminateRunLoop, *)
(* joins the loop thread and destroys the members.                         *)

WinClose0(t) ==
    /\ Running /\ platform = "win"
    /\ t = Constructor
    /\ hostPc[t] = "idle"
    /\ javaServer = "buffer"
    /\ deleteCalls < MaxCloses
    /\ deleteCalls' = deleteCalls + 1
    /\ IF deleteCalls = 0
       THEN /\ hostPc' = [hostPc EXCEPT ![t] = "closing"]
            /\ UNCHANGED <<aborted, hostRes>>
       ELSE \/ /\ aborted' = TRUE
               /\ UNCHANGED <<hostPc, hostRes>>
            \/ /\ hostRes' = [hostRes EXCEPT ![t] =
                      [call |-> "close", out |-> "deleted twice", fired |-> 0]]
               /\ UNCHANGED <<aborted, hostPc>>
    /\ UNCHANGED <<cfgVars, javaServer, deleted, hostCmd, closePaths, opsLeft, cmdVars,
                   loopVars, startVars, tableVars, kernVars, fsVars, sinkVars, winVars>>

(* Server::terminateRunLoop up to wait_for. A failure to queue the APC is  *)
(* thrown out of the destructor, which ends the process.                   *)
WinCloseSubmit(t) ==
    /\ Running /\ platform = "win"
    /\ hostPc[t] = "closing"
    /\ WinEnqueue(t, "Terminate", <<>>)
    /\ IF "thread" \in fdsOpen
       THEN /\ hostPc' = [hostPc EXCEPT ![t] = "closewait"]
            /\ UNCHANGED aborted
       ELSE /\ aborted' = TRUE
            /\ UNCHANGED hostPc
    /\ UNCHANGED <<cfgVars, lifeVars, hostRes, closePaths, opsLeft, commands,
                   mtxCommands, fdEventReadable, loopVars, startVars, tableVars,
                   kernVars, fsVars, sinkVars, wps, stack, mutationMutex>>

(* terminateRunLoop returns inside the destructor; a timeout is thrown out *)
(* of it.                                                                  *)
WinCloseWaitReturn(t) ==
    /\ Running /\ platform = "win"
    /\ hostPc[t] = "closewait"
    /\ LET c == hostCmd[t]
           cmd == cmds[c]
       IN  \E why \in WakeReasons(cmd.fired > 0, LoopGone) :
             LET res == WinExecuteResult(cmd, why, "true") IN
             /\ wakeFaultsLeft' = wakeFaultsLeft - WakeCost(why, cmd.fired > 0, LoopGone)
             /\ cmds' = MapErase(cmds, c)
             /\ IF res \notin {"true", "false"}
                THEN /\ aborted' = TRUE
                     /\ UNCHANGED hostPc
                ELSE /\ hostPc' = [hostPc EXCEPT ![t] = "join"]
                     /\ UNCHANGED aborted
    /\ hostCmd' = [hostCmd EXCEPT ![t] = 0]
    /\ UNCHANGED <<platform, trip, lifeVars, hostRes, closePaths, opsLeft, commands,
                   mtxCommands, fdEventReadable, loopVars, startVars, tableVars,
                   kernVars, fsVars, sinkVars, winVars>>

(* The join, then the table's destructor on the closing thread: each       *)
(* ~WatchPoint cancels a read still outstanding; no completion is          *)
(* delivered to this thread.                                               *)
WinCloseJoin(t) ==
    /\ Running /\ platform = "win"
    /\ hostPc[t] = "join"
    /\ ThreadJoined
    /\ LET W1 == [w \in DOMAIN wps |->
                     IF w \in TableWps
                     THEN [WatchPointCancel(wps[w]).wp EXCEPT
                               !.alive = FALSE, !.status = "FREED"]
                     ELSE wps[w]]
       IN  wps' = [w \in {x \in DOMAIN W1 :
                             W1[x].alive \/ W1[x].open \/ W1[x].io # "none"
                                \/ ApcFor(apcQueue, "io", x)} |-> W1[w]]
    /\ watchPoints' = EmptyMap
    /\ deleted' = TRUE
    /\ hostPc' = [hostPc EXCEPT ![t] = "idle"]
    /\ hostRes' = [hostRes EXCEPT ![t] = [call |-> "close", out |-> "ok", fired |-> 0]]
    /\ UNCHANGED <<cfgVars, aborted, javaServer, deleteCalls, hostCmd, closePaths,
                   opsLeft, cmdVars, loopVars, startVars, terminated, watchRoots, regLog,
                   kernVars, fsVars, sinkVars, apcQueue, stack, mutationMutex>>

----------------------------------------------------------------------------
(* Windows: the kernel and the file system *)

Reading == {w \in DOMAIN wps : wps[w].io = "pending"}

(* An outstanding ReadDirectoryChangesW completes: with a record, with no  *)
(* bytes, or with an error. The completion routine is queued as an APC to  *)
(* the thread that issued the read.                                        *)
WinOsComplete ==
    /\ Running /\ platform = "win"
    /\ ~LoopGone
    /\ osLeft > 0
    /\ \E w \in Reading, err \in {"ok", "zero", "error"} :
         /\ wps' = [wps EXCEPT ![w].io = "none"]
         /\ apcQueue' = Append(apcQueue, IoApc(w, err))
    /\ osLeft' = osLeft - 1
    /\ UNCHANGED <<cfgVars, aborted, lifeVars, hostVars, cmdVars, loopVars, startVars,
                   tableVars, kernVars, dirExists, dirDeleted, sinkVars, stack,
                   mutationMutex>>

(* A watched directory is deleted: its outstanding read completes with     *)
(* ERROR_ACCESS_DENIED.                                                    *)
WinOsDeleteDir ==
    /\ Running /\ platform = "win"
    /\ ~LoopGone
    /\ osLeft > 0
    /\ \E p \in DeletablePaths :
         /\ dirExists[p]
         /\ dirExists' = [dirExists EXCEPT ![p] = FALSE]
         /\ LET hit == {w \in Reading : wps[w].path = KeyOf(p)} IN
            IF hit # {}
            THEN LET w == CHOOSE x \in hit : TRUE IN
                 /\ wps' = [wps EXCEPT ![w].io = "none"]
                 /\ apcQueue' = Append(apcQueue, IoApc(w, "denied"))
            ELSE UNCHANGED <<wps, apcQueue>>
    /\ dirDeleted' = TRUE
    /\ osLeft' = osLeft - 1
    /\ UNCHANGED <<cfgVars, aborted, lifeVars, hostVars, cmdVars, loopVars, startVars,
                   tableVars, kernVars, sinkVars, stack, mutationMutex>>

(* A read that CancelIoEx took completes with ERROR_OPERATION_ABORTED; the *)
(* APC is lost when the thread that issued the read has ended.             *)
WinOsAbort ==
    /\ Running /\ platform = "win"
    /\ \E w \in DOMAIN wps :
         /\ wps[w].io = "cancelling"
         /\ IF loopPc = "exited"
            THEN /\ wps' = Destroyed([wps EXCEPT ![w].io = "none"], apcQueue, w)
                 /\ UNCHANGED apcQueue
            ELSE /\ wps' = [wps EXCEPT ![w].io = "none"]
                 /\ apcQueue' = Append(apcQueue, IoApc(w, "aborted"))
    /\ UNCHANGED <<cfgVars, aborted, lifeVars, hostVars, cmdVars, loopVars, startVars,
                   tableVars, kernVars, fsVars, sinkVars, stack, mutationMutex>>

----------------------------------------------------------------------------
(* The Windows path functions on their own: one path of the host goes to   *)
(* its table key (Server::registerPath, lines 409-410) and comes back in   *)
(* the path of an event (Server::handleEvent, lines 245-258).              *)

serverVars == <<platform, wakeFaultsLeft, aborted, lifeVars, hostVars, cmdVars,
                loopVars, startVars, tableVars, kernVars, fsVars, sinkVars, winVars>>

(* Lengths, in code units, on both sides of the limit of 240 *)
PathLengths == {8, 16, 100, 238, 239, 240, 241, 242, 243, 244, 300}

LocalPath(letter, n) == letter \o ":\\" \o Pad(n - 3)

UncPath(n) == "\\\\s\\" \o Pad(n - 4)

(* Absolute local and UNC paths as the host gives them *)
HostPaths ==
    {LocalPath(letter, n) : letter \in {"C", "z"}, n \in PathLengths}
    \cup {UncPath(n) : n \in PathLengths}

FileNames == {"f", "g.txt"}

InitPaths ==
    /\ \E p \in HostPaths : trip = [NoTrip EXCEPT !.path = p]
    /\ InitServer("win")

(* registerPath: longPath = path; convertToLongPathIfNeeded(longPath) *)
PathRegister ==
    /\ trip.path # "" /\ trip.key = ""
    /\ trip' = [trip EXCEPT !.key = convertToLongPathIfNeeded(trip.path)]
    /\ UNCHANGED serverVars

(* handleEvent for a file under the WatchPoint whose path is the key *)
PathEvent ==
    /\ trip.key # "" /\ trip.out = ""
    /\ \E f \in FileNames :
         trip' = [trip EXCEPT !.file = f, !.out = WinChangedPath(trip.key, f)]
    /\ UNCHANGED serverVars

NextPaths == PathRegister \/ PathEvent

----------------------------------------------------------------------------
(* Specifications *)

(* The steps of the platform-independent layer *)
NextShared ==
    \/ \E t \in Threads : StartThreadReturn(t)
    \/ \E t \in Threads : UseAfterFree(t)

NextLinuxOnly ==
    \/ \E t \in Threads : LinuxConstruct(t)
    \/ LinuxLoopStart
    \/ \E t \in Threads : Submit(t)
    \/ \E t \in Threads : WaitReturn(t)
    \/ Poll
    \/ PollFail
    \/ ReadEventFd
    \/ ReadEventFdFail
    \/ ExecuteCommand
    \/ DrainDone
    \/ ReadInotify
    \/ ReadInotifyFail
    \/ HandleEvent
    \/ \E t \in Threads : Close0(t)
    \/ \E t \in Threads : CloseSubmit(t)
    \/ \E t \in Threads : CloseWaitReturn(t)
    \/ \E t \in Threads : CloseJoin(t)
    \/ OsFileEvent
    \/ OsOverflow
    \/ OsDeleteDir

NextWinOnly ==
    \/ \E t \in Threads : WinConstruct(t)
    \/ WinLoopStart
    \/ \E t \in Threads : WinSubmit(t)
    \/ \E t \in Threads : WinWaitReturn(t)
    \/ WinRunCommandApc
    \/ WinCommandStep
    \/ WinDtorReturn
    \/ WinCompletion
    \/ WinTeardown
    \/ WinFinalEnd
    \/ WinDangling
    \/ \E t \in Threads : WinClose0(t)
    \/ \E t \in Threads : WinCloseSubmit(t)
    \/ \E t \in Threads : WinCloseWaitReturn(t)
    \/ \E t \in Threads : WinCloseJoin(t)
    \/ WinOsComplete
    \/ WinOsDeleteDir
    \/ WinOsAbort

NextLinux == NextShared \/ NextLinuxOnly
NextWin == NextShared \/ NextWinOnly
Next == NextShared \/ NextLinuxOnly \/ NextWinOnly

Init == \E pl \in {"linux", "win"} : InitFor(pl)

(* One backend at a time, and both *)
SpecLinux == InitFor("linux") /\ [][NextLinux]_vars
SpecWin == InitFor("win") /\ [][NextWin]_vars
Spec == Init /\ [][Next]_vars

(* The path functions alone *)
SpecPaths == InitPaths /\ [][NextPaths]_vars

----------------------------------------------------------------------------
(* Properties *)

(* C2: while the Server lives and no directory has been deleted, the keys  *)
(* of the watch-point table are exactly the paths that were registered     *)
(* with success and not unregistered since.                                *)
C2_TableIsRegisteredSet ==
    (~dirDeleted /\ ~deleted) => DOMAIN watchPoints = {KeyOf(p) : p \in regLog}

(* C1: once close has returned, every handle the Server opened is closed:  *)
(* no descriptor, no inotify watch, no directory handle and no thread      *)
(* handle is left open.                                                    *)
C1_NoHandleLeftOpen ==
    deleted => /\ fdsOpen = {}
               /\ kWatches = {}
               /\ \A w \in DOMAIN wps : ~wps[w].open

(* C3: an unregister command never ends in a thrown failure; its result is *)
(* true exactly when every path of its list was in the table; and no path  *)
(* of its list is in the table afterwards.                                 *)
C3_UnregisterResult ==
    [][\A c \in DOMAIN cmds :
          (/\ cmds[c].kind = "Unregister"
           /\ cmds[c].fired = 0
           /\ c \in DOMAIN cmds'
           /\ cmds'[c].fired = 1)
          => LET paths == cmds[c].paths
                 watched == \A i \in 1 .. Len(paths) : KeyOf(paths[i]) \in DOMAIN watchPoints
             IN  /\ cmds'[c].failure = NullFailure
                 /\ (cmds'[c].success = "true") <=> watched
                 /\ \A i \in 1 .. Len(paths) : KeyOf(paths[i]) \notin DOMAIN watchPoints'
      ]_vars

(* What registerPath does with a path in the current state: it fails       *)
(* with "Already watching path" and changes nothing.                       *)
RegisterRefused(p) ==
    IF platform = "linux"
    THEN LET r == LinuxRegisterPath(ServerState, p) IN
         /\ r.failure = "Already watching path"
         /\ r.st = ServerState
    ELSE \A os \in ListenOutcomes(KeyOf(p)) :
           LET r == WinRegisterPath(watchPoints, wps, apcQueue, p, os) IN
           /\ r.failure = "Already watching path"
           /\ r.T = watchPoints
           /\ r.W = wps

C5_NoDeliveryAfterClose ==
    [][deleted => (sinkCalls' = sinkCalls /\ errCalls' = errCalls)]_vars

(* C5's case: close returned after an OS event that was never delivered *)
C5_ClosedWithUndelivered ==
    deleted /\ osLeft < MaxOsEvents /\ ~dirDeleted /\ sinkCalls = 0 /\ errCalls = 0

(* C6: close0 on a Server that is already closed does not delete it again *)
C6_NoSecondDelete == deleteCalls <= 1

(* C7: no Command is fired twice, and none is left unfired: once the loop  *)
(* thread has ended, every Command that exists has been fired.             *)
C7_FiredExactlyOnce ==
    /\ \A c \in DOMAIN cmds : cmds[c].fired <= 1
    /\ loopPc = "exited" => \A c \in DOMAIN cmds : cmds[c].fired = 1

(* C8: a submitter that comes back with a result or a stored failure, not  *)
(* with a timeout, comes back after the command's body was executed.       *)
C8_ResultAfterBody ==
    \A t \in Threads :
        (/\ hostRes[t].call \in {"Register", "Unregister"}
         /\ hostRes[t].out \notin {TimedOut, WinTimedOut, "none",
                                   "Received error while queuing APC"})
        => hostRes[t].fired > 0

(* C9: construction gives the host a Server only after the loop thread     *)
(* signalled "started" with no failure.                                    *)
C9_ServerOnlyAfterStarted ==
    \A t \in Threads :
        (hostRes[t].call = "start" /\ hostRes[t].out = "server")
        => (started /\ initException = NullFailure)

(* C10: a failure thrown by the sink in reportChange goes to reportError,  *)
(* the loop thread does not end and the termination flag stays as it was.  *)
C10_SinkFailureKeepsLoop ==
    [][sinkFaultsLeft' < sinkFaultsLeft
          => /\ errCalls' = errCalls + 1
             /\ loopPc' # "exited"
             /\ terminated' = terminated
      ]_vars

(* A record (Linux) or a completion (Windows) for the WatchPoint under the *)
(* key of p is still waiting to be handled by the loop thread.             *)
DeletionPending(p) ==
    IF platform = "linux"
    THEN LET records == buffer \o inotifyQ IN
         \E i \in 1 .. Len(records) : records[i].wd = watchPoints[p]
    ELSE ApcFor(apcQueue, "io", watchPoints[KeyOf(p)])

(* The loop thread takes up what the OS sent for the deletion of p: the    *)
(* IN_DELETE_SELF record (Linux) or the ERROR_ACCESS_DENIED completion     *)
(* (Windows) of a WatchPoint that is in the table.                         *)
HandlesDeletionOf(p) ==
    /\ ~dirExists[p]
    /\ KeyOf(p) \in DOMAIN watchPoints
    /\ IF platform = "linux"
       THEN /\ loopPc = "handle" /\ buffer # <<>> /\ buffer' # buffer
            /\ Head(buffer).wd = watchPoints[p]
            /\ Head(buffer).mask = {"IN_DELETE_SELF"}
       ELSE /\ apcQueue # <<>> /\ apcQueue' = Tail(apcQueue)
            /\ Head(apcQueue) = IoApc(watchPoints[KeyOf(p)], "denied")

(* C11: when a watched directory is deleted, a Removed event with the      *)
(* directory's path is emitted; once the loop thread has handled what the  *)
(* OS sent for the deletion, the path is no key of the table; and an       *)
(* Unregister of the path after that gives false, not a failure.           *)
C11_DeletedDirDropped ==
    /\ [](\A p \in Paths :
            (~dirExists[p] /\ KeyOf(p) \in DOMAIN watchPoints /\ ~LoopGone)
            => DeletionPending(p))
    /\ [][\A p \in Paths :
            HandlesDeletionOf(p)
            => \E i \in 1 .. Len(emitted') :
                   emitted'[i] = Event(FILE_EVENT_REMOVED, p)
       ]_vars
    /\ [][\A c \in DOMAIN cmds, p \in Paths :
            (/\ cmds[c].kind = "Unregister" /\ cmds[c].paths = <<p>>
             /\ cmds[c].fired = 0 /\ c \in DOMAIN cmds' /\ cmds'[c].fired = 1
             /\ ~dirExists[p]
             /\ KeyOf(p) \in DOMAIN watchPoints => ~DeletionPending(p))
            => (cmds'[c].failure = NullFailure /\ cmds'[c].success = "false")
       ]_vars

(* The Linux loop thread handles the first record of its buffer, and the   *)
(* record's mask has the flag.                                             *)
HandlesRecord(flag) ==
    /\ platform = "linux"
    /\ loopPc = "handle" /\ buffer # <<>> /\ buffer' # buffer
    /\ IS_SET(Head(buffer).mask, {flag})

(* C12: an IN_Q_OVERFLOW record gives exactly one Invalidate event, whose  *)
(* path is a watched directory, and leaves the table and the reverse index *)
(* as they were.                                                           *)
C12_OverflowInvalidatesDir ==
    [][(HandlesRecord("IN_Q_OVERFLOW") /\ watchPoints # EmptyMap)
          => /\ sinkCalls' = sinkCalls + 1
             /\ \E p \in DOMAIN watchPoints :
                    emitted' = <<Event(FILE_EVENT_INVALIDATE, p)>>
             /\ watchPoints' = watchPoints
             /\ watchRoots' = watchRoots
      ]_vars

(* C13: an IN_IGNORED record for a descriptor of the reverse index removes *)
(* the WatchPoint and the reverse-index entry and calls the sink for       *)
(* nothing; an IN_IGNORED for a descriptor that was unregistered removes   *)
(* no WatchPoint; and an Unregister of a path that IN_IGNORED dropped      *)
(* gives false, not a failure.                                             *)
C13_IgnoredDropsSilently ==
    /\ [][HandlesRecord("IN_IGNORED")
            => LET wd == Head(buffer).wd IN
               /\ sinkCalls' = sinkCalls /\ errCalls' = errCalls
               /\ wd \notin DOMAIN watchRoots'
               /\ IF wd \in DOMAIN watchRoots
                  THEN watchRoots[wd] \notin DOMAIN watchPoints'
                  ELSE watchPoints' = watchPoints
       ]_vars
    /\ [][\A c \in DOMAIN cmds, p \in Paths :
            (/\ platform = "linux"
             /\ cmds[c].kind = "Unregister" /\ cmds[c].paths = <<p>>
             /\ cmds[c].fired = 0 /\ c \in DOMAIN cmds' /\ cmds'[c].fired = 1
             /\ p \in regLog /\ p \notin DOMAIN watchPoints)
            => (cmds'[c].failure = NullFailure /\ cmds'[c].success = "false")
       ]_vars

(* The Windows loop thread is given the completion `err` of the read of a  *)
(* WatchPoint that is LISTENING, while the Server is not terminated.       *)
HandlesCompletion(w, err) ==
    /\ platform = "win"
    /\ apcQueue # <<>> /\ apcQueue' = Tail(apcQueue)
    /\ Head(apcQueue) = IoApc(w, err)
    /\ wps[w].alive /\ wps[w].status = "LISTENING"
    /\ ~terminated

(* C14: a completion with zero bytes gives the sink exactly one call, an   *)
(* Invalidate for the directory that the host registered.                  *)
C14_ZeroBytesInvalidates ==
    [][\A w \in DOMAIN wps :
          HandlesCompletion(w, "zero")
          => /\ sinkCalls' = sinkCalls + 1
             /\ emitted' = <<Event(FILE_EVENT_INVALIDATE, DirOf(wps[w].path))>>
      ]_vars

(* C15: the table key of an absolute local or UNC path is the path itself  *)
(* up to 240 code units and its long form from 241 on, and the path of an  *)
(* event for a file under it is the host's path, a backslash and the file  *)
(* name, without the long-path prefix.                                     *)
C15_PathRoundTrip ==
    LET p == trip.path IN
    /\ trip.key # ""
       => /\ Len(p) <= 240 => trip.key = p
          /\ Len(p) >= 241 => trip.key \in {"\\\\?\\" \o p,
                                            "\\\\?\\UNC\\" \o SubSeq(p, 3, Len(p))}
    /\ trip.out # ""
       => /\ trip.out = p \o "\\" \o trip.file
          /\ SubSeq(trip.out, 1, 4) # "\\\\?\\"

(* C15's case: an event came back for a path of 241 code units, whose key  *)
(* is in long form.                                                        *)
C15_LongPathCameBack ==
    /\ Len(trip.path) = 241
    /\ isLongPath(trip.key)
    /\ trip.out # ""

(* C16: the loop thread does not hold the queue mutex while the body of a  *)
(* command is executing.                                                   *)
C16_NoQueueMutexWhileExecuting ==
    [][(\E c \in DOMAIN cmds :
            c \in DOMAIN cmds' /\ cmds'[c].fired > cmds[c].fired)
          => mtxCommands # "loop"
      ]_vars

(* C17: the termination flag, once true, stays true, and from then on no   *)
(* WatchPoint is created: the table gets no new key and no new object.     *)
C17_NoWatchPointAfterTerminate ==
    [][terminated
          => /\ terminated'
             /\ DOMAIN watchPoints' \subseteq DOMAIN watchPoints
             /\ DOMAIN wps' \subseteq DOMAIN wps
      ]_vars

(* A host thread reads the table itself: ~Server's copy of the keys of     *)
(* watchPoints (Linux, lines 67-70), made while the loop thread exists.    *)
ForeignTableAccess ==
    \E t \in Threads :
        /\ platform = "linux"
        /\ hostPc[t] = "idle" /\ hostPc'[t] = "closing"
        /\ loopPc \notin {"none", "exited"}

(* C18: no thread but the loop thread touches the table, the reverse index *)
(* or a WatchPoint; host threads only queue Commands and wait for them.    *)
C18_TableOnlyOnLoopThread == [][~ForeignTableAccess]_vars

(* C19: on Linux the reverse index is the inverse of the table: wd -> p is *)
(* in the reverse index exactly when the WatchPoint of p has descriptor wd. *)
C19_ReverseIndexInLockstep ==
    (platform = "linux" /\ ~deleted)
    => /\ \A wd \in DOMAIN watchRoots :
             /\ watchRoots[wd] \in DOMAIN watchPoints
             /\ watchPoints[watchRoots[wd]] = wd
       /\ \A p \in DOMAIN watchPoints :
             /\ watchPoints[p] \in DOMAIN watchRoots
             /\ watchRoots[watchPoints[p]] = p

(* C20: a record of a watch whose descriptor is not in the reverse index   *)
(* (the path was unregistered before the record was read) is dropped: the  *)
(* sink is not called and the table and the reverse index stay as they     *)
(* were.                                                                   *)
C20_UnknownDescriptorDropped ==
    [][(/\ platform = "linux"
        /\ loopPc = "handle" /\ buffer # <<>> /\ buffer' # buffer
        /\ Head(buffer).wd > 0
        /\ Head(buffer).wd \notin DOMAIN watchRoots)
          => /\ sinkCalls' = sinkCalls
             /\ watchPoints' = watchPoints
             /\ watchRoots' = watchRoots
      ]_vars

(* C21: when the loop thread has handled the completion of a LISTENING     *)
(* WatchPoint while the Server is not terminated, the WatchPoint is        *)
(* LISTENING again or FINISHED with its handle closed, whatever the        *)
(* completion carried and whether or not the sink threw.                   *)
C21_CompletionRearms ==
    [][\A w \in DOMAIN wps : \A err \in {"ok", "zero", "denied", "error"} :
          HandlesCompletion(w, err)
          => /\ w \in DOMAIN wps'
             /\ \/ wps'[w].status = "LISTENING"
                \/ wps'[w].status = "FINISHED" /\ ~wps'[w].open
      ]_vars

(* ~WatchPoint of w is on the loop thread's stack *)
BeingDestroyed(w) ==
    \E i \in 1 .. Len(stack) : stack[i].f = "dtor" /\ stack[i].id = w

(* C22: every WatchPoint in the table holds an open handle (Windows: and   *)
(* is not FINISHED; Linux: its inotify watch exists, or the records of its *)
(* removal by the kernel are still to be read), and a WatchPoint that left *)
(* the table and whose destructor is over has its handle closed.           *)
C22_TableHandlesLive ==
    /\ platform = "win" =>
          /\ \A k \in DOMAIN watchPoints :
                /\ wps[watchPoints[k]].open
                /\ wps[watchPoints[k]].status # "FINISHED"
          /\ \A w \in DOMAIN wps :
                (w \notin TableWps /\ ~BeingDestroyed(w)) => ~wps[w].open
    /\ platform = "linux" =>
          /\ \A p \in DOMAIN watchPoints :
                \/ \E w \in kWatches : w.wd = watchPoints[p]
                \/ DeletionPending(p)
          /\ \A w \in kWatches : \E p \in DOMAIN watchPoints : watchPoints[p] = w.wd

(* The Linux loop thread leaves runLoop because poll or a read gave -1 *)
LoopIoFailure ==
    /\ platform = "linux"
    /\ loopPc \in {"poll", "cmds", "inotify"}
    /\ loopPc' = "exited"

(* C23: when poll or a read of the loop fails, the thread ends with the    *)
(* termination flag set and the failure given once to the sink's error     *)
(* channel.                                                                *)
C23_IoFailureTerminates ==
    [][LoopIoFailure => (terminated' /\ errCalls' = errCalls + 1)]_vars

(* Scheduling of the Linux backend: the loop thread, once started, keeps   *)
(* taking its next step, and a submitter whose wait_for can return does    *)
(* return. Failures of poll and read, file system happenings and new host  *)
(* calls are free to happen or not.                                        *)
FairLinux ==
    /\ WF_vars(LinuxLoopStart)
    /\ WF_vars(Poll)
    /\ WF_vars(ReadEventFd)
    /\ WF_vars(ExecuteCommand)
    /\ WF_vars(DrainDone)
    /\ WF_vars(ReadInotify)
    /\ WF_vars(HandleEvent)
    /\ \A t \in Threads : WF_vars(WaitReturn(t))

SpecLinuxFair == SpecLinux /\ FairLinux

(* Thread t is in executeOnThread with its Command queued and not yet      *)
(* executed, while the loop thread is in runLoop and terminated is false.  *)
AwaitsLoop(t) ==
    /\ platform = "linux"
    /\ hostPc[t] = "wait"
    /\ hostCmd[t] \in DOMAIN cmds
    /\ InQueue(hostCmd[t])
    /\ cmds[hostCmd[t]].fired = 0
    /\ loopPc \in {"poll", "cmds", "drain", "inotify", "handle"}
    /\ ~terminated

(* executeOnThread of t has returned a result of an executed Command *)
ReturnedExecuted(t) ==
    /\ hostPc[t] = "idle"
    /\ hostRes[t].fired > 0
    /\ hostRes[t].out # TimedOut

(* C24: under fair scheduling, a Command that is queued while the loop is  *)
(* running and terminated is false is executed, and its submitter returns  *)
(* from executeOnThread without a timeout.                                 *)
C24_NoLostWakeUp ==
    \A t \in Threads : AwaitsLoop(t) ~> ReturnedExecuted(t)

(* The Windows loop thread runs the APC at the head of its queue *)
DeliversApc(kind) ==
    /\ platform = "win"
    /\ apcQueue # <<>> /\ Head(apcQueue).kind = kind
    /\ apcQueue' = Tail(apcQueue)

(* The Linux loop thread executes Command c *)
ExecutesCommand(c) ==
    /\ platform = "linux"
    /\ c \in DOMAIN cmds /\ c \in DOMAIN cmds'
    /\ cmds'[c].fired > cmds[c].fired

(* C25: the loop thread only executes a Command whose submitter is still   *)
(* inside the call that queued it: on Linux no Command is executed after   *)
(* its submitter returned, and on Windows no queued APC runs for, and no   *)
(* command is in progress on, a Command whose stack frame is gone.         *)
C25_CommandOutlivesExecution ==
    /\ [][\A c \in CmdIds : ExecutesCommand(c) => cmds[c].owner # "none"]_vars
    /\ [][DeliversApc("cmd") => Head(apcQueue).id \in DOMAIN cmds]_vars
    /\ [](platform = "win" =>
            \A i \in 1 .. Len(stack) :
               stack[i].f = "cmd" => stack[i].id \in DOMAIN cmds)

(* C26: a destroyed WatchPoint has no read outstanding and no completion   *)
(* queued, and no completion callback runs for a destroyed WatchPoint.     *)
C26_NoCompletionAfterDestroy ==
    /\ [](\A w \in DOMAIN wps :
            ~wps[w].alive => /\ wps[w].io = "none"
                             /\ ~ApcFor(apcQueue, "io", w))
    /\ [][DeliversApc("io") => wps[Head(apcQueue).id].alive]_vars

(* The completion at the head of the queue is one that                     *)
(* WatchPoint::handleEventsInBuffer passes on to Server::handleEvents.     *)
ReachesHandleEvents ==
    /\ DeliversApc("io")
    /\ Head(apcQueue).err # "aborted"
    /\ wps[Head(apcQueue).id].alive
    /\ wps[Head(apcQueue).id].status = "LISTENING"

(* C27: the loop thread never runs Server::handleEvents, which locks       *)
(* mutationMutex, while it holds mutationMutex itself in the final wait of *)
(* runLoop, and so never blocks on its own lock.                           *)
C27_NoSelfDeadlock ==
    /\ [][ReachesHandleEvents => mutationMutex # "loop"]_vars
    /\ [](loopPc # "deadlock")

====
